---- MODULE Spec2Model ----
(***************************************************************************)
(* The TradingView webhook server (tunnel.py), the trades.json /           *)
(* processed_trades.json files, the broker's order book as seen through    *)
(* topstepapi/order.py, and the bracket-order lifecycle of the bots        *)
(* (tvBot.py, tvBot_backup.py, trading_bot.py, bots/ma_bot.py,             *)
(* bots/scalping_bot_two.py).                                              *)
(*                                                                         *)
(* A JSON object is a record whose DOMAIN is the set of keys present; a    *)
(* JSON list is a sequence.  Python's None is the order id 0 (broker ids   *)
(* are the positions 1, 2, ... of the broker's order log).  Broker calls   *)
(* may raise; a write of a local file by a bot succeeds.                   *)
(***************************************************************************)
EXTENDS Integers, Sequences, FiniteSets, TLC

\* ------------------------------------------------------------------ bounds
MaxOrders   == 4    \* orders the broker accepts before it rejects every order
MaxWebhooks == 2    \* POST /webhook requests received
MaxInitFile == 2    \* entries of trades.json when the model starts

\* --------------------------------------------------------------- constants
None   == 0         \* Python's None for an order id
MARKET == 2         \* order type of the entry order
LIMIT  == 1         \* order type of the take-profit order
STOP   == 4         \* order type of the stop-loss order
BuySide  == 0
SellSide == 1
MaPositionSize == 2 \* bots/ma_bot.py position_size
ScalpLotSize   == 1 \* scalping bot: max(1, int(round(predicted[2])))

VARIABLES
    bot,                \* which program runs
    pc,                 \* position of the bot's run loop
    file,               \* trades.json
    pfile,              \* processed_trades.json
    wtrades,            \* tunnel.py: trades (the in-memory trade log)
    winflight,          \* tunnel.py: the requests logged and not yet answered
    wresp,              \* tunnel.py: the last response of /webhook
    orders,             \* broker: every order accepted, in order; id = position
    open,               \* broker: ids of the working (open) orders
    filled,             \* broker: ids of the orders that were filled
    cancel_requests,    \* broker: ids a cancel request was sent for
    processed_trades,   \* bot: self.processed_trades
    active_orders,      \* bot: self.active_orders
    active_trades,      \* TVBot: self.active_trades
    ltrades,            \* process_new_trades: the local list trades
    snap,               \* process_new_trades: the copy trades[:] iterated over
    idx,                \* process_new_trades: position in snap
    pt,                 \* the last place_trade call: how it was called and ended
    pn,                 \* the current/last process_new_trades call
    ever_processed,     \* every trade_id that was ever in processed_trades
    ever_cleared,       \* every trade_id clear_trades_file took out of the file
    current_position,   \* market-data bots: self.current_position
    entry_price,        \* market-data bots: self.entry_price
    active_tp_order_id, \* scalping bot
    active_sl_order_id, \* scalping bot
    main_order_id,      \* scalping bot
    current_orders,     \* trading_bot: self.current_orders
    token,              \* market_data.py: the token the client is built with
    hub,                \* market_data.py: the calls made on self.connection
    cb,                 \* the stream thread: where the trade callback stands
    position,           \* broker: the account's open position, signed
    mod,                \* order.py: the last modify_order call
    strategy,           \* ma_crossover.py: the RealTimeMACrossover object
    scalper,            \* the MicroScalper object
    advice              \* tvBot_backup.py: the last _get_recommended_action call

webvars == <<wtrades, winflight, wresp>>
envvars == <<file, pfile, webvars>>
brokervars == <<orders, open, filled, cancel_requests>>
tvvars == <<processed_trades, active_orders, active_trades, ltrades, snap, idx,
            pn, ever_processed, ever_cleared>>
mdvars == <<current_position, entry_price, active_tp_order_id,
            active_sl_order_id, main_order_id, current_orders>>
streamvars == <<token, hub, cb, position>>
sigvars == <<strategy, scalper, advice>>
vars == <<bot, pc, envvars, brokervars, tvvars, pt, mdvars, streamvars, mod,
          sigvars>>

TVBots == {"TVBot", "EnhancedTVBot"}
MDBots == {"trading_bot", "ma_bot", "scalping_bot_two"}

\* ------------------------------------------------------------------ helpers
\* dict.get(k, default)
Get(d, k, default) == IF k \in DOMAIN d THEN d[k] ELSE default

\* list.remove(e): the list without the first element equal to e
Remove(s, e) ==
    IF \E i \in 1..Len(s) : s[i] = e
    THEN LET i == CHOOSE j \in 1..Len(s) :
                      s[j] = e /\ \A k \in 1..(j - 1) : s[k] # e
         IN  [k \in 1..(Len(s) - 1) |-> IF k < i THEN s[k] ELSE s[k + 1]]
    ELSE s

\* str.upper() on the action words that occur
Upper(s) ==
    CASE s = "buy"   -> "BUY"
      [] s = "sell"  -> "SELL"
      [] s = "close" -> "CLOSE"
      [] OTHER       -> s

\* float(text): the texts that parse, and their values
FloatOk(s) == s \in {"0", "1", "2"}
FloatVal(s) ==
    CASE s = "0" -> 0
      [] s = "1" -> 1
      [] s = "2" -> 2
      [] OTHER   -> 0

\* ------------------------------------------------------------ tunnel.py
ReqJsonTimeSell ==
    [is_json |-> TRUE,
     data |-> [time |-> "t", action |-> "sell", symbol |-> "MNQ", price |-> "1",
               qty |-> "1", tp |-> "0", sl |-> "2"]]
ReqJsonBadPrice ==
    [is_json |-> TRUE,
     data |-> [action |-> "buy", symbol |-> "MNQ", price |-> "abc"]]
ReqFormBadPrice ==
    [is_json |-> FALSE,
     data |-> [action |-> "close", symbol |-> "MNQ", price |-> "abc", qty |-> "2"]]
Requests == {ReqJsonTimeSell, ReqJsonBadPrice, ReqFormBadPrice}

\* the key the quantity is read from
QtyKey(req) ==
    IF req.is_json /\ "time" \notin DOMAIN req.data THEN "quantity" ELSE "qty"

\* the four numeric texts of a request, defaults filled in
NumTexts(req) ==
    [price    |-> Get(req.data, "price", "0"),
     quantity |-> Get(req.data, QtyKey(req), "1"),
     tp       |-> Get(req.data, "tp", "0"),
     sl       |-> Get(req.data, "sl", "0")]

AllParse(req) == \A k \in DOMAIN NumTexts(req) : FloatOk(NumTexts(req)[k])

\* a JSON request whose number does not parse raises out of the handler
ParseRaises(req) == req.is_json /\ ~AllParse(req)

\* the trade the handler logs; ts is datetime.now()
WebhookTrade(req, ts) ==
    LET n == NumTexts(req)
        ok == AllParse(req)
    IN  [timestamp |-> ts,
         action    |-> Upper(Get(req.data, "action", "")),
         symbol    |-> Get(req.data, "symbol", ""),
         price     |-> IF ok THEN FloatVal(n.price) ELSE 0,
         quantity  |-> IF ok THEN FloatVal(n.quantity) ELSE 1,
         tp        |-> IF ok THEN FloatVal(n.tp) ELSE 0,
         sl        |-> IF ok THEN FloatVal(n.sl) ELSE 0]

\* faulty variant for C4: the handler dumps the new trade only
WebhookDumpLast(trades) == <<trades[Len(trades)]>>

\* the list the handler dumps to trades.json
WebhookDump(trades) == trades

\* a response: its status, the number of requests received so far, and on
\* status 200 the request answered, the trade returned and the position the
\* trade was appended at
NoResp == [status |-> 0, n |-> 0]

\* POST /webhook, up to trades.append(trade).  Flask's development server
\* serves each request in a thread of its own, so another request can be
\* logged before this one dumps the list.
WebhookReceive(req) ==
    /\ wresp.n < MaxWebhooks
    /\ IF ParseRaises(req)
       THEN /\ wresp' = [status |-> 400, n |-> wresp.n + 1]
            /\ UNCHANGED <<wtrades, winflight>>
       ELSE LET trade == WebhookTrade(req, wresp.n + 1)
            IN  /\ wtrades' = Append(wtrades, trade)
                /\ winflight' = winflight \cup
                                    {[req |-> req, trade |-> trade,
                                      pos |-> Len(wtrades')]}
                /\ wresp' = [status |-> wresp.status, n |-> wresp.n + 1]
    /\ UNCHANGED <<sigvars, streamvars, mod, bot, pc, file, pfile, brokervars, tvvars, pt, mdvars>>

\* POST /webhook, from the dump of the list to the response
WebhookSave(h, write_ok) ==
    /\ h \in winflight
    /\ winflight' = winflight \ {h}
    /\ IF write_ok
       THEN /\ file' = WebhookDump(wtrades)
            /\ wresp' = [status |-> 200, n |-> wresp.n, req |-> h.req,
                         trade |-> h.trade, pos |-> h.pos]
       ELSE /\ file' = file
            /\ wresp' = [status |-> 500, n |-> wresp.n]
    /\ UNCHANGED <<sigvars, streamvars, mod, bot, pc, pfile, wtrades, brokervars, tvvars, pt, mdvars>>

\* ------------------------------------------------------ topstepapi/order.py
Order(type, side, linked, sig) ==
    [type |-> type, side |-> side, linked |-> linked, sig |-> sig]

\* place_order when the broker accepts: <<order log, open ids, new id>>
PlaceOrder(os, op, type, side, linked, sig) ==
    LET id == Len(os) + 1
    IN  [orders |-> Append(os, Order(type, side, linked, sig)),
         open   |-> IF type = MARKET THEN op ELSE op \cup {id},
         id     |-> id]

\* cancel_order when the broker accepts: the open ids afterwards
CancelOrder(op, id) == op \ {id}

\* the ids search_open_orders returns
SearchOpenOrders(op) == op

\* a working order fills at the broker and leaves the open orders
BrokerFill(id) ==
    /\ id \in open
    /\ open' = open \ {id}
    /\ filled' = filled \cup {id}
    /\ UNCHANGED <<sigvars, streamvars, mod, bot, pc, envvars, orders, cancel_requests, tvvars, pt, mdvars>>

\* a working order is cancelled at the broker by another client of the account
\* (trading_bot.py cancels every open order of the contract when it starts) and
\* leaves the open orders unfilled
BrokerCancel(id) ==
    /\ id \in open
    /\ open' = open \ {id}
    /\ UNCHANGED <<sigvars, streamvars, mod, bot, pc, envvars, orders, filled, cancel_requests, tvvars, pt,
                   mdvars>>

\* ------------------------------------------------- tvBot.py, tvBot_backup.py
NoOrders == [tp |-> None, sl |-> None, entry |-> None]
NoTrades == [k \in {} |-> 0]
NoSig == <<>>

\* any(self.active_orders.values())
AnyActiveOrder(ao) == ao.tp # None \/ ao.sl # None \/ ao.entry # None

\* has_active_trades(): TVBot looks for an OPEN trade in active_trades,
\* EnhancedTVBot for a tracked order id
HasActiveTrades(b, ao, at) ==
    IF b = "TVBot"
    THEN \E k \in DOMAIN at : at[k].status = "OPEN"
    ELSE AnyActiveOrder(ao)

\* read_trades_file(): the list in trades.json
ReadTradesFile(f) == f

\* faulty variant for C8: the file is left as it is
KeepTradesFile(f) == f

\* clear_trades_file(): what trades.json holds afterwards
ClearTradesFile(f) == <<>>

\* _save_trades(trades): what trades.json holds afterwards
SaveTrades(trades) == trades

\* _save_processed_trades(): what processed_trades.json holds afterwards
SaveProcessedTrades(p) == p

\* faulty variant for C7: the bot starts with an empty set
LoadNothing(pf) == {}

\* _load_processed_trades(): the set read at start
LoadProcessedTrades(pf) == pf

\* int(time.time()) at a poll: later than the key of every trade placed in an
\* earlier poll (the loop sleeps 5 s between polls)
NextTime(at) ==
    IF DOMAIN at = {} THEN 1
    ELSE 1 + CHOOSE k \in DOMAIN at : \A j \in DOMAIN at : j <= k

\* trade_id = f"{symbol}_{action}_{price}_{timestamp}"
TradeId(trade, t) ==
    <<Get(trade, "symbol", ""), Upper(Get(trade, "action", "")),
      Get(trade, "price", 0), Get(trade, "timestamp", Get(trade, "time", t))>>

\* trade_id in self.processed_trades
IsProcessed(id, processed) == id \in processed

RequiredFields == {"action", "price", "symbol", "quantity", "tp", "sl"}

\* faulty variant for C10: the fields are not checked
FieldsNotChecked(trade) == TRUE

\* all(field in trade for field in required_fields)
HasRequiredFields(trade) == RequiredFields \subseteq DOMAIN trade

ValidSide(side) == Upper(side) \in {"BUY", "SELL"}

\* faulty variant for C6: place_trade without its guard
NeverRaises(b, ao, at) == FALSE

\* place_trade's guard: "if self.has_active_trades(): raise ValueError"
RaisesWhenActive(b, ao, at) == HasActiveTrades(b, ao, at)

\* the result of a place_trade call that changed nothing
\* (broker_ok: no broker call made in the call raised)
Untouched(os, op, cr, ao, at, result, broker_ok) ==
    [orders |-> os, open |-> op, cancel_requests |-> cr, active_orders |-> ao,
     active_trades |-> at, result |-> result, types |-> <<>>,
     broker_ok |-> broker_ok]

\* TVBot.place_trade.  fail_at = k: the k-th place_order call raises (0: none)
TVPlaceTrade(side_raw, sig, fail_at, os, op, cr, ao, at, t) ==
    LET side    == Upper(side_raw)
        e_side  == IF side = "BUY" THEN BuySide ELSE SellSide
        x_side  == IF side = "BUY" THEN SellSide ELSE BuySide
        p1 == PlaceOrder(os, op, MARKET, e_side, None, sig)
        p2 == PlaceOrder(p1.orders, p1.open, LIMIT, x_side, p1.id, sig)
        p3 == PlaceOrder(p2.orders, p2.open, STOP, x_side, p1.id, sig)
    IN  IF side \notin {"BUY", "SELL"}
        THEN Untouched(os, op, cr, ao, at, "raised", TRUE)
        ELSE IF RaisesWhenActive("TVBot", ao, at)
        THEN Untouched(os, op, cr, ao, at, "raised", TRUE)
        ELSE IF fail_at = 1 THEN Untouched(os, op, cr, ao, at, "raised", FALSE)
        ELSE IF fail_at = 2
        THEN [orders |-> p1.orders, open |-> p1.open, cancel_requests |-> cr,
              active_orders |-> [ao EXCEPT !.entry = p1.id],
              active_trades |-> at, result |-> "raised", types |-> <<MARKET>>,
              broker_ok |-> FALSE]
        ELSE IF fail_at = 3
        THEN [orders |-> p2.orders, open |-> p2.open, cancel_requests |-> cr,
              active_orders |-> [ao EXCEPT !.entry = p1.id, !.tp = p2.id],
              active_trades |-> at, result |-> "raised",
              types |-> <<MARKET, LIMIT>>, broker_ok |-> FALSE]
        ELSE [orders |-> p3.orders, open |-> p3.open, cancel_requests |-> cr,
              active_orders |-> [tp |-> p2.id, sl |-> p3.id, entry |-> None],
              active_trades |->
                  [k \in DOMAIN at \cup {t} |->
                      IF k = t
                      THEN [status |-> "OPEN", side |-> side,
                            entry_order_id |-> p1.id, tp_order_id |-> p2.id,
                            sl_order_id |-> p3.id]
                      ELSE at[k]],
              result |-> "returned", types |-> <<MARKET, LIMIT, STOP>>,
              broker_ok |-> TRUE]

\* EnhancedTVBot._cleanup_failed_orders: a cancel is sent for every tracked id
CleanupFailedOrders(ao, op, cr, cancel_ok) ==
    LET ids == {ao.tp, ao.sl, ao.entry} \ {None}
    IN  [open |-> IF cancel_ok THEN op \ ids ELSE op,
         cancel_requests |-> cr \cup ids,
         active_orders |-> NoOrders]

\* EnhancedTVBot.place_trade; it returns True ("returned") or False
EnhancedPlaceTrade(side, sig, fail_at, cancel_ok, os, op, cr, ao, at) ==
    LET e_side  == IF side = "BUY" THEN BuySide ELSE SellSide
        x_side  == IF side = "BUY" THEN SellSide ELSE BuySide
        p1 == PlaceOrder(os, op, MARKET, e_side, None, sig)
        p2 == PlaceOrder(p1.orders, p1.open, LIMIT, x_side, p1.id, sig)
        p3 == PlaceOrder(p2.orders, p2.open, STOP, x_side, p1.id, sig)
        Failed(p, tracked, types) ==
            LET c == CleanupFailedOrders(tracked, p.open, cr, cancel_ok)
            IN  [orders |-> p.orders, open |-> c.open,
                 cancel_requests |-> c.cancel_requests,
                 active_orders |-> c.active_orders, active_trades |-> at,
                 result |-> "returned_false", types |-> types,
                 broker_ok |-> FALSE]
    IN  IF RaisesWhenActive("EnhancedTVBot", ao, at)
        THEN Untouched(os, op, cr, ao, at, "raised", TRUE)
        ELSE IF fail_at = 1
        THEN Failed([orders |-> os, open |-> op], ao, <<>>)
        ELSE IF fail_at = 2
        THEN Failed(p1, [ao EXCEPT !.entry = p1.id], <<MARKET>>)
        ELSE IF fail_at = 3
        THEN Failed(p2, [ao EXCEPT !.entry = p1.id], <<MARKET, LIMIT>>)
        ELSE [orders |-> p3.orders, open |-> p3.open, cancel_requests |-> cr,
              active_orders |-> [tp |-> p2.id, sl |-> p3.id, entry |-> p1.id],
              active_trades |-> at, result |-> "returned",
              types |-> <<MARKET, LIMIT, STOP>>, broker_ok |-> TRUE]

\* place_trade of the bot b, as process_new_trades reaches it
TVBotPlaceTrade(b, side, sig, fail_at, cancel_ok, os, op, cr, ao, at, t) ==
    IF b = "TVBot"
    THEN TVPlaceTrade(side, sig, fail_at, os, op, cr, ao, at, t)
    ELSE EnhancedPlaceTrade(Upper(side), sig, fail_at, cancel_ok, os, op, cr, ao, at)

\* the record kept of a place_trade call
Called(b, side_ok, active, ready, r) ==
    [called |-> TRUE, bot |-> b, side_ok |-> side_ok, active |-> active,
     broker_ok |-> r.broker_ok, ready |-> ready, result |-> r.result,
     types |-> r.types]
NotCalled ==
    [called |-> FALSE, bot |-> "", side_ok |-> FALSE, active |-> FALSE,
     broker_ok |-> FALSE, ready |-> FALSE, result |-> "", types |-> <<>>]

\* the record kept of a process_new_trades call: whether it found a trade
\* active, how many entries it cleared from trades.json, how many entry orders
\* it submitted, how many entries it skipped as processed or dropped as invalid
NoCall ==
    [active |-> FALSE, cleared |-> 0, entries |-> 0, skipped |-> 0,
     invalid |-> 0]

\* process_new_trades, up to the loop: clear the file when a trade is active,
\* else read it
ProcessNewTrades ==
    /\ bot \in TVBots
    /\ pc = "process"
    /\ IF HasActiveTrades(bot, active_orders, active_trades)
       THEN /\ file' = ClearTradesFile(file)
            /\ ever_cleared' = ever_cleared \cup
                   {TradeId(file[i], NextTime(active_trades)) :
                       i \in 1..Len(file)}
            /\ pn' = [NoCall EXCEPT !.active = TRUE, !.cleared = Len(file)]
            /\ pc' = "check"
            /\ UNCHANGED <<ltrades, snap, idx>>
       ELSE /\ pn' = NoCall
            /\ file' = file
            /\ ever_cleared' = ever_cleared
            /\ IF ReadTradesFile(file) = <<>>
               THEN /\ pc' = "check"
                    /\ UNCHANGED <<ltrades, snap, idx>>
               ELSE /\ pc' = "loop"
                    /\ ltrades' = ReadTradesFile(file)
                    /\ snap' = ReadTradesFile(file)
                    /\ idx' = 1
    /\ pt' = NotCalled
    /\ UNCHANGED <<sigvars, streamvars, mod, bot, pfile, webvars, brokervars, processed_trades,
                   active_orders, active_trades, ever_processed, mdvars>>

\* the MARKET orders among the types a call submitted
Entries(types) == Cardinality({i \in 1..Len(types) : types[i] = MARKET})

\* the recommendations analyze_signal_with_ai can give
Recommendations == {"SKIP", "CAUTION", "PROCEED", "STRONG_PROCEED"}

\* One pass of the for loop of process_new_trades over trades[:], on the entry
\* snap[idx], ending at continue, at break or at the end of the body.
\* FailAt: the values fail_at may take (the k-th place_order call raises, 0:
\* none); CancelOk: whether a cancel_order call may succeed, may raise; Cap: the
\* number of orders after which the broker accepts no more.
LoopIteration(FailAt, CancelOk, Cap) ==
    /\ bot \in TVBots
    /\ pc = "loop"
    /\ LET trade == snap[idx]
           t     == NextTime(active_trades)
           id    == TradeId(trade, t)
           rest  == Remove(ltrades, trade)
           active == HasActiveTrades(bot, active_orders, active_trades)
           Continue == IF idx < Len(snap)
                       THEN /\ pc' = "loop"
                            /\ idx' = idx + 1
                            /\ snap' = snap
                       ELSE /\ pc' = "check"
                            /\ idx' = 0
                            /\ snap' = <<>>
           Break == /\ pc' = "check"
                    /\ idx' = 0
                    /\ snap' = <<>>
           Keep(l) == ltrades' = IF pc' = "loop" THEN l ELSE <<>>
           Place(fail_at, cancel_ok) ==
               LET r == TVBotPlaceTrade(bot, trade.action, id, fail_at,
                                        cancel_ok, orders, open, cancel_requests,
                                        active_orders, active_trades, t)
               IN  /\ Len(r.orders) <= Cap
                   /\ orders' = r.orders
                   /\ open' = r.open
                   /\ cancel_requests' = r.cancel_requests
                   /\ active_orders' = r.active_orders
                   /\ active_trades' = r.active_trades
                   /\ pt' = Called(bot, ValidSide(trade.action), active, TRUE, r)
                   /\ pn' = [pn EXCEPT !.entries = @ + Entries(r.types)]
                   /\ IF r.result = "returned"
                      THEN \* marked processed, both files saved, break
                           /\ Break
                           /\ Keep(rest)
                           /\ processed_trades' = processed_trades \cup {id}
                           /\ ever_processed' = ever_processed \cup {id}
                           /\ ever_cleared' = ever_cleared
                           /\ pfile' = SaveProcessedTrades(processed_trades')
                           /\ file' = SaveTrades(rest)
                      ELSE /\ Continue
                           /\ Keep(ltrades)
                           /\ UNCHANGED <<file, pfile, processed_trades,
                                          ever_processed, ever_cleared>>
       IN  IF IsProcessed(id, processed_trades)
           THEN \* already processed: dropped from the local list only
                /\ Continue
                /\ Keep(rest)
                /\ pn' = [pn EXCEPT !.skipped = @ + 1]
                /\ UNCHANGED <<file, pfile, brokervars, processed_trades,
                               active_orders, active_trades, ever_processed, ever_cleared, pt>>
           ELSE IF ~HasRequiredFields(trade)
           THEN \* invalid: dropped and the file rewritten
                /\ Continue
                /\ Keep(rest)
                /\ file' = SaveTrades(rest)
                /\ pn' = [pn EXCEPT !.invalid = @ + 1]
                /\ UNCHANGED <<pfile, brokervars, processed_trades,
                               active_orders, active_trades, ever_processed, ever_cleared, pt>>
           ELSE IF bot = "TVBot"
           THEN \E fail_at \in FailAt : Place(fail_at, TRUE)
           ELSE \E skip \in {rec = "SKIP" : rec \in Recommendations} :
                IF skip
                THEN \* the analysis says SKIP: marked processed without an order
                     /\ Continue
                     /\ Keep(rest)
                     /\ processed_trades' = processed_trades \cup {id}
                     /\ ever_processed' = ever_processed \cup {id}
                     /\ ever_cleared' = ever_cleared
                     /\ pfile' = SaveProcessedTrades(processed_trades')
                     /\ file' = SaveTrades(rest)
                     /\ UNCHANGED <<brokervars, active_orders, active_trades, pt,
                                    pn>>
                ELSE IF ~ValidSide(trade.action)
                THEN \* place_enhanced_trade raises before place_trade: False
                     /\ Continue
                     /\ Keep(ltrades)
                     /\ UNCHANGED <<file, pfile, brokervars, processed_trades,
                                    active_orders, active_trades, ever_processed, ever_cleared,
                                    pt, pn>>
                ELSE \E fail_at \in FailAt, cancel_ok \in CancelOk :
                         Place(fail_at, cancel_ok)
    /\ UNCHANGED <<sigvars, streamvars, mod, bot, webvars, filled, mdvars>>

\* check_and_cancel_orders on the tracked ids ao, against the broker's open ids
CheckAndCancel(b, ao, op, cr, search_ok, cancel_ok) ==
    LET same == [active_orders |-> ao, open |-> op, cancel_requests |-> cr]
        Sibling(id) ==
            [active_orders |-> NoOrders,
             open |-> IF id # None /\ cancel_ok THEN CancelOrder(op, id) ELSE op,
             cancel_requests |-> IF id # None THEN cr \cup {id} ELSE cr]
    IN  IF ~AnyActiveOrder(ao) THEN same
        ELSE IF ~search_ok
        THEN [same EXCEPT !.active_orders = NoOrders]
        ELSE IF ao.tp # None /\ ao.tp \notin SearchOpenOrders(op)
        THEN Sibling(ao.sl)
        ELSE IF ao.sl # None /\ ao.sl \notin SearchOpenOrders(op)
        THEN Sibling(ao.tp)
        ELSE same

\* run(): the call of check_and_cancel_orders and the time.sleep(5) after it
CheckAndCancelOrders(search_ok, cancel_ok) ==
    /\ bot \in TVBots
    /\ pc = "check"
    /\ pc' = "process"
    /\ LET c == CheckAndCancel(bot, active_orders, open, cancel_requests,
                               search_ok, cancel_ok)
       IN  /\ active_orders' = c.active_orders
           /\ open' = c.open
           /\ cancel_requests' = c.cancel_requests
    /\ pn' = NoCall
    /\ pt' = NotCalled
    /\ UNCHANGED <<sigvars, streamvars, mod, bot, envvars, orders, filled, processed_trades,
                   active_trades, ltrades, snap, idx, ever_processed, ever_cleared, mdvars>>

\* The bot is stopped between two polls and started again: __init__ builds the
\* in-memory state anew and loads processed_trades.json.  A stop by Ctrl+C
\* saves the set first.
Restart(graceful) ==
    /\ bot \in TVBots
    /\ pc = "process"
    /\ pfile' = IF graceful THEN SaveProcessedTrades(processed_trades) ELSE pfile
    /\ processed_trades' = LoadProcessedTrades(pfile')
    /\ active_orders' = NoOrders
    /\ active_trades' = NoTrades
    /\ ltrades' = <<>>
    /\ snap' = <<>>
    /\ idx' = 0
    /\ pn' = NoCall
    /\ pt' = NotCalled
    /\ pc' = "process"
    /\ UNCHANGED <<sigvars, streamvars, mod, bot, file, webvars, brokervars, ever_processed, ever_cleared, mdvars>>

\* ------------------ trading_bot.py, bots/ma_bot.py, bots/scalping_bot_two.py
\* what a place_trade call of a market-data bot leaves behind
MdResult(os, op, cr, pos, price, tp, sl, main, result, types, broker_ok) ==
    [orders |-> os, open |-> op, cancel_requests |-> cr,
     current_position |-> pos, entry_price |-> price,
     active_tp_order_id |-> tp, active_sl_order_id |-> sl,
     main_order_id |-> main, result |-> result, types |-> types,
     broker_ok |-> broker_ok]

\* trading_bot.TradingBot.place_trade: after the entry order the method reads
\* tp_order and sl_order, which it never assigns, and raises NameError
TradingBotPlaceTrade(side, fail_at, os, op, cr, pos, price) ==
    LET p1 == PlaceOrder(os, op, MARKET,
                         IF side = "buy" THEN BuySide ELSE SellSide, None, NoSig)
    IN  IF side \notin {"buy", "sell"}
        THEN MdResult(os, op, cr, pos, price, None, None, None, "raised", <<>>,
                      TRUE)
        ELSE IF fail_at = 1
        THEN MdResult(os, op, cr, pos, price, None, None, None, "raised", <<>>,
                      FALSE)
        ELSE MdResult(p1.orders, p1.open, cr, pos, price, None, None, None,
                      "raised", <<MARKET>>, TRUE)

\* bots/ma_bot.TradingBot.place_trade: the entry order only
MaPlaceTrade(side, entry, fail_at, os, op, cr, pos, price) ==
    LET p1 == PlaceOrder(os, op, MARKET,
                         IF side = "buy" THEN BuySide ELSE SellSide, None, NoSig)
    IN  IF fail_at = 1
        THEN MdResult(os, op, cr, pos, price, None, None, None, "raised", <<>>,
                      FALSE)
        ELSE MdResult(p1.orders, p1.open, cr, MaPositionSize, entry, None, None,
                      None, "returned", <<MARKET>>, TRUE)

\* scalping bot cancel_all_orders.  cfail = k: the k-th cancel_order call made
\* raises (0: none); the ids are reset whatever happens
CancelAllOrders(tp, sl, op, cr, cfail) ==
    LET tp_sent == tp # None
        tp_ok   == tp_sent /\ cfail # 1
        sl_sent == sl # None /\ (~tp_sent \/ tp_ok)
        sl_ok   == sl_sent /\ cfail # (IF tp_sent THEN 2 ELSE 1)
    IN  [open |-> (op \ (IF tp_ok THEN {tp} ELSE {})) \ (IF sl_ok THEN {sl} ELSE {}),
         cancel_requests |-> cr \cup (IF tp_sent THEN {tp} ELSE {})
                                \cup (IF sl_sent THEN {sl} ELSE {}),
         raised |-> (tp_sent /\ ~tp_ok) \/ (sl_sent /\ ~sl_ok)]

\* bots/scalping_bot_two.TradingBot.place_trade.  ready: extract_features and
\* the model's prediction gave the three numbers
ScalpPlaceTrade(side, entry, ready, fail_at, c1, c2, os, op, cr, pos, price, tp, sl, main) ==
    LET e_side == IF side = "buy" THEN BuySide ELSE SellSide
        x_side == IF e_side = BuySide THEN SellSide ELSE BuySide
        c  == CancelAllOrders(tp, sl, op, cr, c1)
        p1 == PlaceOrder(os, c.open, MARKET, e_side, None, NoSig)
        p2 == PlaceOrder(p1.orders, p1.open, LIMIT, x_side, p1.id, NoSig)
        p3 == PlaceOrder(p2.orders, p2.open, STOP, x_side, p1.id, NoSig)
        d  == CancelAllOrders(p2.id, None, p2.open, c.cancel_requests, c2)
    IN  IF ~ready
        THEN MdResult(os, op, cr, pos, price, tp, sl, main, "returned", <<>>,
                      TRUE)
        ELSE IF fail_at = 1
        THEN MdResult(os, c.open, c.cancel_requests, pos, price, None, None,
                      None, "raised", <<>>, FALSE)
        ELSE IF fail_at = 2
        THEN MdResult(p1.orders, p1.open, c.cancel_requests, pos, price, None,
                      None, None, "raised", <<MARKET>>, FALSE)
        ELSE IF fail_at = 3
        THEN MdResult(p2.orders, d.open, d.cancel_requests, pos, price, None,
                      None, None, "raised", <<MARKET, LIMIT>>, FALSE)
        ELSE MdResult(p3.orders, p3.open, c.cancel_requests,
                      IF side = "buy" THEN ScalpLotSize ELSE 0 - ScalpLotSize,
                      entry, p2.id, p3.id, p1.id, "returned",
                      <<MARKET, LIMIT, STOP>>, ~c.raised)

\* place_trade of the market-data bot b
MdPlaceTrade(b, side, entry, ready, fail_at, c1, c2, os, op, cr, pos, price, tp, sl, main) ==
    IF b = "trading_bot"
    THEN TradingBotPlaceTrade(side, fail_at, os, op, cr, pos, price)
    ELSE IF b = "ma_bot"
    THEN MaPlaceTrade(side, entry, fail_at, os, op, cr, pos, price)
    ELSE ScalpPlaceTrade(side, entry, ready, fail_at, c1, c2, os, op, cr, pos,
                         price, tp, sl, main)

\* ------------------------------------------- topstepapi/order.py, modify_order
\* the parameters of modify_order
ModifyParams ==
    {"account_id", "order_id", "size", "limit_price", "stop_price",
     "trail_price", "linked_order_id"}

\* the key of the payload a parameter is sent under
PayloadKey(param) ==
    CASE param = "account_id"      -> "accountId"
      [] param = "order_id"        -> "orderId"
      [] param = "size"            -> "size"
      [] param = "limit_price"     -> "limitPrice"
      [] param = "stop_price"      -> "stopPrice"
      [] param = "trail_price"     -> "trailPrice"
      [] param = "linked_order_id" -> "linkedOrderId"
      [] OTHER                     -> param

\* a Decimal is sent as str(value); Decimals are written as [decimal |-> n]
\* and their text as [text |-> n]
IsDecimal(v) == DOMAIN v = {"decimal"}
PayloadValue(param, v) ==
    IF param \in {"limit_price", "stop_price", "trail_price"} /\ IsDecimal(v)
    THEN [text |-> v.decimal]
    ELSE v

\* the JSON body modify_order posts for the keyword arguments kw
ModifyPayload(kw) ==
    [k \in {PayloadKey(p) : p \in DOMAIN kw} |->
        LET p == CHOOSE q \in DOMAIN kw : PayloadKey(q) = k
        IN  PayloadValue(p, kw[p])]

\* OrderAPI.modify_order(**kw).  A keyword that is no parameter of the method,
\* or a missing account_id or order_id, makes the call itself raise TypeError
\* before the body runs; answer is what the broker replies to the request
ModifyOrder(kw, answer) ==
    IF ~(DOMAIN kw \subseteq ModifyParams)
          \/ ~({"account_id", "order_id"} \subseteq DOMAIN kw)
    THEN [sent |-> <<>>, result |-> "TypeError"]
    ELSE [sent |-> <<ModifyPayload(kw)>>,
          result |-> IF answer = "success" THEN "True" ELSE "raised"]

\* the record kept of a modify_order call
NotModified ==
    [called |-> FALSE, kw |-> <<>>, answer |-> "", sent |-> <<>>,
     result |-> ""]

\* the keyword arguments callers pass besides account_id and order_id: those
\* of tests/test_modify_order.py, and prices and a size under the method's own
\* parameter names
Levels ==
    [take_profit |-> [decimal |-> 7], stop_loss |-> [decimal |-> 3],
     limit_price |-> [decimal |-> 7], stop_price |-> [decimal |-> 3],
     size |-> [int |-> 2]]
ModifyKwargs ==
    {[p \in S \cup {"account_id", "order_id"} |->
         IF p = "account_id" THEN [int |-> 1]
         ELSE IF p = "order_id" THEN [int |-> id]
         ELSE Levels[p]] :
       S \in SUBSET DOMAIN Levels, id \in 1..MaxOrders}

\* what the broker can reply: success, an API error, an HTTP error
Answers == {"success", "api_error", "http_error"}

\* a caller invokes modify_order
ModifyOrderCall(kw, answer) ==
    /\ pc = "call"
    /\ LET r == ModifyOrder(kw, answer)
       IN  mod' = [called |-> TRUE, kw |-> kw, answer |-> answer,
                   sent |-> r.sent, result |-> r.result]
    /\ UNCHANGED <<bot, pc, envvars, brokervars, tvvars, pt, mdvars,
                   streamvars, sigvars>>

\* ------------------------------- topstepapi/market_data.py and run() of the
\* ------------------------------- market-data bots (ma_bot, scalping_bot_two)
StreamBots == {"ma_bot", "scalping_bot_two"}

\* os.getenv("TOPSTEPX_SESSION_TOKEN"): empty, or a session token
Tokens == {"", "jwt"}

\* MarketDataClient.__init__: "if not token: raise ValueError"
TokenRejected(tok) == tok = ""

\* faulty variant for C13: the connection is started before the handlers are
\* registered
StartCallsLate ==
    <<"on_open", "on_close", "on_error", "start", "on GatewayQuote",
      "on GatewayTrade", "on GatewayDepth", "send SubscribeContractQuotes",
      "send SubscribeContractTrades", "send SubscribeContractMarketDepth">>

\* MarketDataClient.start, subscribe_all inlined: the calls it makes on
\* self.connection, in order
StartCalls ==
    <<"on_open", "on_close", "on_error", "on GatewayQuote", "on GatewayTrade",
      "on GatewayDepth", "start", "send SubscribeContractQuotes",
      "send SubscribeContractTrades", "send SubscribeContractMarketDepth">>

\* MarketDataClient.stop, unsubscribe_all inlined
StopCalls ==
    <<"send UnsubscribeContractQuotes", "send UnsubscribeContractTrades",
      "send UnsubscribeContractMarketDepth", "stop">>

\* the calls that go to the server and can raise; on_open, on_close, on_error
\* and on only store a handler
CanRaise(call) == call \notin {"on_open", "on_close", "on_error",
                               "on GatewayQuote", "on GatewayTrade",
                               "on GatewayDepth"}

\* the callback thread at rest.  pos, price: the arguments place_trade is
\* about to store; strat: the position MACrossoverStrategy believes it holds,
\* next: the one it stores when place_trade returns; fresh: the callback has
\* written current_position or entry_price since the polling loop last queried
\* the positions
IdleCb ==
    [pc |-> "idle", pos |-> 0, price |-> None, strat |-> 0, next |-> 0,
     fresh |-> FALSE]

\* run(): MarketDataClient(token=os.getenv(...), ...)
Construct(tok) ==
    /\ bot \in StreamBots
    /\ pc = "new"
    /\ token' = tok
    /\ pc' = IF TokenRejected(tok) THEN "ValueError" ELSE "starting"
    /\ UNCHANGED <<sigvars, mod, bot, envvars, brokervars, tvvars, pt, mdvars, hub, cb,
                   position>>

\* run(): self.market_data.start(), one call on the connection at a time; a
\* call that raises ends run() before the loop
StartStep(ok) ==
    /\ bot \in StreamBots
    /\ pc = "starting"
    /\ LET call == StartCalls[Len(hub) + 1]
       IN  IF ok \/ ~CanRaise(call)
           THEN /\ hub' = Append(hub, call)
                /\ pc' = IF Len(hub') = Len(StartCalls) THEN "poll"
                         ELSE "starting"
           ELSE /\ hub' = hub
                /\ pc' = "start_raised"
    /\ UNCHANGED <<sigvars, mod, bot, envvars, brokervars, tvvars, pt, mdvars, token, cb,
                   position>>

\* the set of elements of a sequence
Range(q) == {q[i] : i \in 1..Len(q)}

\* the trade callback can run: the handler is registered, the trades of the
\* contract are subscribed to, and run() has neither ended nor unsubscribed
TradesOn ==
    /\ {"on GatewayTrade", "send SubscribeContractTrades"} \subseteq Range(hub)
    /\ "send UnsubscribeContractTrades" \notin Range(hub)
    /\ pc \in {"starting", "poll", "flat", "reset", "stopping"}

\* what a fill of an order of the given side and size adds to the position
Signed(side, size) == IF side = BuySide THEN size ELSE 0 - size

\* self.position_size
OrderSize(b) == IF b = "ma_bot" THEN MaPositionSize ELSE ScalpLotSize

\* search_open_positions: whether the contract has an open position
SearchOpenPositions(p) == p # 0

\* search_orders(start_timestamp): the ids of the orders created at or after
\* start (ids are given in order of creation)
SearchOrdersSince(os, start) == {j \in 1..Len(os) : j >= start}

\* scalping bot check_and_cancel_orders: it searches the orders created from
\* "now" on for the TP, then the SL, with status Filled, and cancels the other
ScalpCheckAndCancelOrders(tp, sl, os, fl, op, cr) ==
    LET found == SearchOrdersSince(os, Len(os) + 1) \cap fl
        same  == [tp |-> tp, sl |-> sl, open |-> op, cancel_requests |-> cr]
    IN  IF tp = None \/ sl = None THEN same
        ELSE IF tp \in found
        THEN [tp |-> None, sl |-> None, open |-> CancelOrder(op, sl),
              cancel_requests |-> cr \cup {sl}]
        ELSE IF sl \in found
        THEN [tp |-> None, sl |-> None, open |-> CancelOrder(op, tp),
              cancel_requests |-> cr \cup {tp}]
        ELSE same

\* the rest of a loop iteration once check_positions has returned: the
\* scalping bot calls check_and_cancel_orders, then both bots sleep
EndIteration ==
    /\ pc' = "poll"
    /\ IF bot = "scalping_bot_two"
       THEN LET c == ScalpCheckAndCancelOrders(active_tp_order_id,
                         active_sl_order_id, orders, filled, open,
                         cancel_requests)
            IN  /\ active_tp_order_id' = c.tp
                /\ active_sl_order_id' = c.sl
                /\ open' = c.open
                /\ cancel_requests' = c.cancel_requests
       ELSE UNCHANGED <<active_tp_order_id, active_sl_order_id, open,
                        cancel_requests>>

\* an exception leaves check_positions: ma_bot's loop has no handler for it
\* and run() ends; the scalping bot's loop logs it, sleeps and goes on
LoopRaises(how) ==
    /\ pc' = IF bot = "ma_bot" THEN how ELSE "poll"
    /\ UNCHANGED <<active_tp_order_id, active_sl_order_id, open,
                   cancel_requests>>

\* check_positions, the search_open_positions call: with a position open it
\* returns at once
PollQuery(ok) ==
    /\ bot \in StreamBots
    /\ pc = "poll"
    /\ IF ~ok THEN LoopRaises("terminated")
       ELSE IF SearchOpenPositions(position) THEN EndIteration
       ELSE /\ pc' = "flat"
            /\ UNCHANGED <<active_tp_order_id, active_sl_order_id, open,
                           cancel_requests>>
    /\ cb' = [cb EXCEPT !.fresh = FALSE]
    /\ UNCHANGED <<sigvars, mod, bot, envvars, orders, filled, tvvars, pt, current_position,
                   entry_price, main_order_id, current_orders, token, hub,
                   position>>

\* check_positions with no position open: it reads current_position and, when
\* that is not 0, entry_price for the PnL (None: TypeError), logs the EXIT
\* (ma_bot appends it to its trade log file, log_ok: the write succeeds) and
\* sets current_position to 0
PollDecide(log_ok) ==
    /\ bot \in StreamBots
    /\ pc = "flat"
    /\ IF current_position = 0
       THEN EndIteration /\ current_position' = current_position
       ELSE IF entry_price = None
       THEN /\ LoopRaises("terminated_type_error")
            /\ current_position' = current_position
       ELSE IF ~log_ok /\ bot = "ma_bot"
       THEN LoopRaises("terminated") /\ current_position' = current_position
       ELSE /\ current_position' = 0
            /\ pc' = "reset"
            /\ UNCHANGED <<active_tp_order_id, active_sl_order_id, open,
                           cancel_requests>>
    /\ UNCHANGED <<sigvars, mod, bot, envvars, orders, filled, tvvars, pt, entry_price,
                   main_order_id, current_orders, streamvars>>

\* check_positions, its last statement: self.entry_price = None
PollReset ==
    /\ bot \in StreamBots
    /\ pc = "reset"
    /\ entry_price' = None
    /\ EndIteration
    /\ UNCHANGED <<sigvars, mod, bot, envvars, orders, filled, tvvars, pt, current_position,
                   main_order_id, current_orders, streamvars>>

\* Ctrl+C during the sleep: the scalping bot calls cancel_all_orders, then
\* both bots stop the stream
KeyboardInterrupt(cfail) ==
    /\ bot \in StreamBots
    /\ pc = "poll"
    /\ pc' = "stopping"
    /\ IF bot = "scalping_bot_two"
       THEN LET c == CancelAllOrders(active_tp_order_id, active_sl_order_id,
                                     open, cancel_requests, cfail)
            IN  /\ open' = c.open
                /\ cancel_requests' = c.cancel_requests
                /\ active_tp_order_id' = None
                /\ active_sl_order_id' = None
                /\ main_order_id' = None
       ELSE /\ cfail = 0
            /\ UNCHANGED <<open, cancel_requests, active_tp_order_id,
                           active_sl_order_id, main_order_id>>
    /\ UNCHANGED <<sigvars, mod, bot, envvars, orders, filled, tvvars, pt, current_position,
                   entry_price, current_orders, streamvars>>

\* self.market_data.stop(), one call on the connection at a time
StopStep(ok) ==
    /\ bot \in StreamBots
    /\ pc = "stopping"
    /\ LET call == StopCalls[Len(hub) - Len(StartCalls) + 1]
       IN  IF ok
           THEN /\ hub' = Append(hub, call)
                /\ pc' = IF call = "stop" THEN "stopped" ELSE "stopping"
           ELSE /\ hub' = hub
                /\ pc' = "stop_raised"
    /\ UNCHANGED <<sigvars, mod, bot, envvars, brokervars, tvvars, pt, mdvars, token, cb,
                   position>>

\* A GatewayTrade message arrives on the stream thread: handle_trade calls
\* _handle_market_trade, the strategy decides to trade and place_trade runs up
\* to its last broker call.  MACrossoverStrategy enters when it believes it
\* is flat and exits otherwise; MicroScalper.check_signal trades only when
\* bot.current_position is 0.  An exception of place_trade is caught on the
\* way out (handle_trade, _handle_market_trade).
CbTrade(Entry, Ready, FailAt, C1, C2) ==
    /\ bot \in StreamBots
    /\ cb.pc = "idle"
    /\ TradesOn
    /\ LET Place(side, entry, ready, fail_at, c1, c2) ==
               LET r == MdPlaceTrade(bot, side, entry, ready, fail_at, c1, c2,
                                     orders, open, cancel_requests,
                                     current_position, entry_price,
                                     active_tp_order_id, active_sl_order_id,
                                     main_order_id)
                   e_side == IF side = "buy" THEN BuySide ELSE SellSide
               IN  /\ Len(r.orders) <= MaxOrders
                   /\ orders' = r.orders
                   /\ open' = r.open
                   /\ cancel_requests' = r.cancel_requests
                   /\ active_tp_order_id' = r.active_tp_order_id
                   /\ active_sl_order_id' = r.active_sl_order_id
                   /\ main_order_id' = r.main_order_id
                   /\ position' = IF r.types # <<>>
                                  THEN position + Signed(e_side, OrderSize(bot))
                                  ELSE position
                   /\ pt' = Called(bot, TRUE, FALSE, ready, r)
                   /\ cb' = IF r.result = "returned" /\ r.types # <<>>
                            THEN [cb EXCEPT !.pc = "ordered",
                                            !.pos = r.current_position,
                                            !.price = r.entry_price,
                                            !.next =
                                                IF bot # "ma_bot" \/ cb.strat # 0
                                                THEN 0
                                                ELSE Signed(e_side, 1)]
                            ELSE cb
       IN  IF bot = "ma_bot"
           THEN \E side \in {"buy", "sell"}, entry \in Entry,
                   fail_at \in FailAt \cap {0, 1} :
                    /\ \/ cb.strat = 0
                       \/ cb.strat > 0 /\ side = "sell"
                       \/ cb.strat < 0 /\ side = "buy"
                    /\ Place(side, entry, TRUE, fail_at, 0, 0)
           ELSE /\ current_position = 0
                /\ \E side \in {"buy", "sell"}, entry \in Entry,
                      ready \in Ready :
                       IF ~ready THEN Place(side, entry, FALSE, 0, 0, 0)
                       ELSE \E fail_at \in FailAt :
                            \* a cancel can raise only where one is sent
                            \E c1 \in IF active_tp_order_id = None
                                         /\ active_sl_order_id = None
                                      THEN {0} ELSE C1,
                               c2 \in IF fail_at = 3 THEN C2 ELSE {0} :
                                Place(side, entry, TRUE, fail_at, c1, c2)
    /\ UNCHANGED <<sigvars, mod, bot, pc, envvars, filled, tvvars, current_position,
                   entry_price, current_orders, token, hub>>

\* place_trade on the stream thread: self.current_position = ...
CbSetPosition ==
    /\ bot \in StreamBots
    /\ cb.pc = "ordered"
    /\ current_position' = cb.pos
    /\ cb' = [cb EXCEPT !.pc = "position_set", !.fresh = TRUE]
    /\ UNCHANGED <<sigvars, mod, bot, pc, envvars, brokervars, tvvars, pt, entry_price,
                   active_tp_order_id, active_sl_order_id, main_order_id,
                   current_orders, token, hub, position>>

\* place_trade on the stream thread: self.entry_price = entry_price, and the
\* return to the strategy, which stores its own position
CbSetEntry ==
    /\ bot \in StreamBots
    /\ cb.pc = "position_set"
    /\ entry_price' = cb.price
    /\ cb' = [IdleCb EXCEPT !.strat = cb.next, !.fresh = TRUE]
    /\ UNCHANGED <<sigvars, mod, bot, pc, envvars, brokervars, tvvars, pt, current_position,
                   active_tp_order_id, active_sl_order_id, main_order_id,
                   current_orders, token, hub, position>>

\* a working TP or SL order fills at the broker and changes the position
StreamFill(id) ==
    /\ bot \in StreamBots
    /\ id \in open
    /\ open' = open \ {id}
    /\ filled' = filled \cup {id}
    /\ position' = position + Signed(orders[id].side, OrderSize(bot))
    /\ UNCHANGED <<sigvars, mod, bot, pc, envvars, orders, cancel_requests, tvvars, pt,
                   mdvars, token, hub, cb>>

\* ----------------------------------------------- the methods, called directly
EntryPrices == {10, 11}

\* a caller invokes place_trade of a market-data bot (only the scalping bot
\* reads features, places more than one order and cancels)
MdPlaceTradeCall(side, entry, ready, fail_at, c1, c2) ==
    /\ bot \in MDBots
    /\ pc = "call"
    /\ bot = "scalping_bot_two" \/ (ready /\ fail_at <= 1 /\ c1 = 0 /\ c2 = 0)
    /\ LET r == MdPlaceTrade(bot, side, entry, ready, fail_at, c1, c2, orders,
                             open, cancel_requests, current_position,
                             entry_price, active_tp_order_id,
                             active_sl_order_id, main_order_id)
       IN  /\ Len(r.orders) <= MaxOrders
           /\ orders' = r.orders
           /\ open' = r.open
           /\ cancel_requests' = r.cancel_requests
           /\ current_position' = r.current_position
           /\ entry_price' = r.entry_price
           /\ active_tp_order_id' = r.active_tp_order_id
           /\ active_sl_order_id' = r.active_sl_order_id
           /\ main_order_id' = r.main_order_id
           /\ pt' = Called(bot, side \in {"buy", "sell"}, FALSE,
                           ready \/ bot # "scalping_bot_two", r)
    /\ UNCHANGED <<sigvars, streamvars, mod, bot, pc, envvars, filled, tvvars, current_orders>>

\* a caller invokes place_trade of TVBot or EnhancedTVBot; same_second: the
\* clock shows the second of the last trade placed
TvPlaceTradeCall(side, fail_at, cancel_ok, same_second) ==
    /\ bot \in TVBots
    /\ pc = "call"
    /\ LET t == IF same_second /\ DOMAIN active_trades # {}
                THEN NextTime(active_trades) - 1
                ELSE NextTime(active_trades)
           r == TVBotPlaceTrade(bot, side, NoSig, fail_at, cancel_ok, orders,
                                open, cancel_requests, active_orders,
                                active_trades, t)
       IN  /\ Len(r.orders) <= MaxOrders
           /\ orders' = r.orders
           /\ open' = r.open
           /\ cancel_requests' = r.cancel_requests
           /\ active_orders' = r.active_orders
           /\ active_trades' = r.active_trades
           /\ pt' = Called(bot, ValidSide(side),
                           HasActiveTrades(bot, active_orders, active_trades),
                           TRUE, r)
    /\ UNCHANGED <<sigvars, streamvars, mod, bot, pc, envvars, filled, processed_trades, ltrades, snap,
                   idx, pn, ever_processed, ever_cleared, mdvars>>

\* a caller invokes check_and_cancel_orders
CheckAndCancelCall(search_ok, cancel_ok) ==
    /\ bot \in TVBots
    /\ pc = "call"
    /\ LET c == CheckAndCancel(bot, active_orders, open, cancel_requests,
                               search_ok, cancel_ok)
       IN  /\ active_orders' = c.active_orders
           /\ open' = c.open
           /\ cancel_requests' = c.cancel_requests
    /\ UNCHANGED <<sigvars, streamvars, mod, bot, pc, envvars, orders, filled, processed_trades,
                   active_trades, ltrades, snap, idx, pn, ever_processed, ever_cleared, pt,
                   mdvars>>

\* a caller invokes cancel_all_orders of the scalping bot (run does so on
\* KeyboardInterrupt)
CancelAllOrdersCall(cfail) ==
    /\ bot = "scalping_bot_two"
    /\ pc = "call"
    /\ LET c == CancelAllOrders(active_tp_order_id, active_sl_order_id, open,
                                cancel_requests, cfail)
       IN  /\ open' = c.open
           /\ cancel_requests' = c.cancel_requests
    /\ active_tp_order_id' = None
    /\ active_sl_order_id' = None
    /\ main_order_id' = None
    /\ UNCHANGED <<sigvars, streamvars, mod, bot, pc, envvars, orders, filled, tvvars, pt,
                   current_position, entry_price, current_orders>>

\* --------------------------------------------------------------- start
EntryBuy ==
    [timestamp |-> 0, action |-> "BUY", symbol |-> "MNQ", price |-> 1,
     quantity |-> 1, tp |-> 2, sl |-> 0]
EntryOldFormat ==
    [time |-> 0, action |-> "BUY", symbol |-> "MNQ", price |-> 1, qty |-> 1,
     tp |-> 2, sl |-> 0]
InitEntries == {EntryBuy, EntryOldFormat}
InitFiles == UNION {[1..n -> InitEntries] : n \in 0..MaxInitFile}

\* ------------------------------------------- strategies/ma_crossover.py
FastPeriod == 2     \* fast_period (ma_bot passes 10)
SlowPeriod == 3     \* slow_period (ma_bot passes 30)
MaxPrice   == 3     \* the stream's prices are 1..MaxPrice
Prices == 1..MaxPrice

\* no order placed
NoTrade == ""

\* RealTimeMACrossover(...): empty windows, flat, no entry price; calls and
\* before record the last on_price call: the sides it passed to place_trade
\* and the current_position it found
NewStrategy ==
    [fast_prices |-> <<>>, slow_prices |-> <<>>, current_position |-> 0,
     entry_price |-> None, calls |-> <<>>, before |-> 0]

\* deque(maxlen = n).append(x)
DequeAppend(q, x, n) == IF Len(q) < n THEN Append(q, x) ELSE Append(Tail(q), x)

RECURSIVE Sum(_)
Sum(q) == IF q = <<>> THEN 0 ELSE Head(q) + Sum(Tail(q))

\* fast_ma > slow_ma and fast_ma < slow_ma, each average being sum / len; the
\* quotients are compared by cross-multiplying
MaAbove(fast, slow) == Sum(fast) * Len(slow) > Sum(slow) * Len(fast)
MaBelow(fast, slow) == Sum(fast) * Len(slow) < Sum(slow) * Len(fast)

\* a faulty crossover test that also trades when the averages are equal
MaDecisionEager(pos, fast, slow) ==
    IF Len(fast) < FastPeriod \/ Len(slow) < SlowPeriod
    THEN [side |-> NoTrade, pos |-> pos]
    ELSE IF pos = 0
         THEN IF ~MaBelow(fast, slow)
              THEN [side |-> "buy", pos |-> MaPositionSize]
              ELSE [side |-> "sell", pos |-> -MaPositionSize]
         ELSE IF pos > 0 /\ ~MaAbove(fast, slow)
              THEN [side |-> "sell", pos |-> 0]
              ELSE IF pos < 0 /\ ~MaBelow(fast, slow)
                   THEN [side |-> "buy", pos |-> 0]
                   ELSE [side |-> NoTrade, pos |-> pos]

\* on_price after the appends: the side it passes to place_trade, if any, and
\* the current_position it stores when place_trade has returned
MaDecision(pos, fast, slow) ==
    IF Len(fast) < FastPeriod \/ Len(slow) < SlowPeriod
    THEN [side |-> NoTrade, pos |-> pos]
    ELSE IF pos = 0
         THEN IF MaAbove(fast, slow)
              THEN [side |-> "buy", pos |-> MaPositionSize]
              ELSE IF MaBelow(fast, slow)
                   THEN [side |-> "sell", pos |-> -MaPositionSize]
                   ELSE [side |-> NoTrade, pos |-> pos]
         ELSE IF pos > 0 /\ MaBelow(fast, slow)
              THEN [side |-> "sell", pos |-> 0]
              ELSE IF pos < 0 /\ MaAbove(fast, slow)
                   THEN [side |-> "buy", pos |-> 0]
                   ELSE [side |-> NoTrade, pos |-> pos]

\* RealTimeMACrossover.on_price(price); ok: trader.place_trade returns, else
\* it raises and the assignments after it are not reached
OnPrice(price, ok) ==
    /\ bot = "ma_bot"
    /\ pc = "signals"
    /\ LET fast == DequeAppend(strategy.fast_prices, price, FastPeriod)
           slow == DequeAppend(strategy.slow_prices, price, SlowPeriod)
           d == MaDecision(strategy.current_position, fast, slow)
           done == d.side # NoTrade /\ ok
       IN  /\ d.side = NoTrade => ok
           /\ strategy' =
                 [fast_prices |-> fast, slow_prices |-> slow,
                  current_position |->
                     IF done THEN d.pos ELSE strategy.current_position,
                  entry_price |->
                     IF ~done THEN strategy.entry_price
                     ELSE IF d.pos = 0 THEN None ELSE price,
                  calls |-> IF d.side = NoTrade THEN <<>> ELSE <<d.side>>,
                  before |-> strategy.current_position]
    /\ UNCHANGED <<bot, pc, envvars, brokervars, tvvars, pt, mdvars, streamvars,
                   mod, scalper, advice>>

\* ------------ MicroScalper: bots/scalping_bot_two.py, strategies/micro_scalper.py
WindowSize == 2     \* window_size (the code's is 5)
Threshold  == 1     \* threshold
NoVolume   == -1    \* on_trade called with volume = None
Volumes == {NoVolume, 0, 2}

\* MicroScalper(...): empty lists; position is the strategies class's own
\* position (NoTrade for None).  received counts the prices received, up to
\* WindowSize + 1; calls and flat record the last call: the sides it passed
\* on, and whether it found the bot (or itself) without a position
NewScalper ==
    [last_prices |-> <<>>, last_volumes |-> <<>>, position |-> NoTrade,
     received |-> 0, calls |-> <<>>, flat |-> TRUE]

\* on_trade / handle_trade up to check_signal: the lists after the appends and
\* the pops, and whether check_signal is called
ScalperWindow(prices, volumes, price, volume) ==
    LET p1 == Append(prices, price)
        v1 == Append(volumes, IF volume = NoVolume THEN 1 ELSE volume)
    IN  IF Len(p1) > WindowSize
        THEN [prices |-> Tail(p1),
              volumes |-> IF v1 # <<>> THEN Tail(v1) ELSE v1, check |-> TRUE]
        ELSE [prices |-> p1, volumes |-> v1, check |-> FALSE]

\* a faulty check_signal that trades with a position held
CheckSignalAlways(flat, window) ==
    LET delta == window[Len(window)] - window[1]
    IN  IF delta > Threshold THEN "sell"
        ELSE IF delta < 0 - Threshold THEN "buy"
        ELSE NoTrade

\* check_signal: the side it trades, if any
CheckSignal(flat, window) ==
    IF ~flat THEN NoTrade
    ELSE LET delta == window[Len(window)] - window[1]
         IN  IF delta > Threshold THEN "sell"
             ELSE IF delta < 0 - Threshold THEN "buy"
             ELSE NoTrade

\* the ways a place_trade call of the scalping bot ends: the orders placed
\* and current_position set, an early return, an exception
PlaceOutcomes == {"placed", "returned", "raised"}

\* scalping_bot_two's MicroScalper.on_trade(price, volume), called by the
\* trade callback and by fetch_historical_volumes
ScalperOnTrade(price, volume, outcome) ==
    /\ bot = "scalping_bot_two"
    /\ pc = "signals"
    /\ LET w == ScalperWindow(scalper.last_prices, scalper.last_volumes,
                              price, volume)
           flat == current_position = 0
           side == IF w.check THEN CheckSignal(flat, w.prices) ELSE NoTrade
       IN  /\ side = NoTrade => outcome = "returned"
           /\ scalper' =
                 [scalper EXCEPT
                    !.last_prices = w.prices, !.last_volumes = w.volumes,
                    !.received = IF @ > WindowSize THEN @ ELSE @ + 1,
                    !.calls = IF side = NoTrade THEN <<>> ELSE <<side>>,
                    !.flat = flat]
           /\ current_position' =
                 IF side # NoTrade /\ outcome = "placed"
                 THEN Signed(IF side = "buy" THEN BuySide ELSE SellSide,
                             ScalpLotSize)
                 ELSE current_position
    /\ UNCHANGED <<bot, pc, envvars, brokervars, tvvars, pt, entry_price,
                   active_tp_order_id, active_sl_order_id, main_order_id,
                   current_orders, streamvars, mod, strategy, advice>>

\* scalping_bot_two's check_positions finds no open position: flat again
ScalperFlat ==
    /\ bot = "scalping_bot_two"
    /\ pc = "signals"
    /\ current_position # 0
    /\ current_position' = 0
    /\ UNCHANGED <<bot, pc, envvars, brokervars, tvvars, pt, entry_price,
                   active_tp_order_id, active_sl_order_id, main_order_id,
                   current_orders, streamvars, mod, sigvars>>

\* strategies/micro_scalper.py, handle_trade((contract_id, trade_data)); ok:
\* place_market_order returns and place_order stores the side
HandleTrade(price, ok) ==
    /\ bot = "micro_scalper"
    /\ pc = "signals"
    /\ LET w == ScalperWindow(scalper.last_prices, <<>>, price, NoVolume)
           flat == scalper.position = NoTrade
           side == IF w.check THEN CheckSignal(flat, w.prices) ELSE NoTrade
       IN  /\ side = NoTrade => ok
           /\ scalper' =
                 [scalper EXCEPT
                    !.last_prices = w.prices,
                    !.position = IF side # NoTrade /\ ok THEN Upper(side)
                                 ELSE @,
                    !.received = IF @ > WindowSize THEN @ ELSE @ + 1,
                    !.calls = IF side = NoTrade THEN <<>> ELSE <<Upper(side)>>,
                    !.flat = flat]
    /\ UNCHANGED <<bot, pc, envvars, brokervars, tvvars, pt, mdvars, streamvars,
                   mod, strategy, advice>>

\* strategies/micro_scalper.py, close_position with a position held
ClosePosition ==
    /\ bot = "micro_scalper"
    /\ pc = "signals"
    /\ scalper.position # NoTrade
    /\ scalper' = [scalper EXCEPT !.position = NoTrade]
    /\ UNCHANGED <<bot, pc, envvars, brokervars, tvvars, pt, mdvars, streamvars,
                   mod, strategy, advice>>

\* ------------------------ tvBot_backup.py, _get_recommended_action
\* Confidences and the sentiment score are counted in tenths.
MinConfidenceThreshold == 4     \* self.min_confidence_threshold = 0.4
\* the values on either side of each comparison
Confidences == {3, 4, 7, 8}
SentimentScores == {-2, -1, 1, 2}
SignalActions == {"buy", "BUY", "sell", "SELL", "close"}

\* no _get_recommended_action call yet
NoAdvice ==
    [called |-> FALSE, action |-> "", sentiment_score |-> 0, confidence |-> 0,
     overall_confidence |-> 0, result |-> ""]

\* a faulty variant whose comparisons include their bounds
GetRecommendedActionLax(action, sentiment_score, confidence, overall_confidence) ==
    LET signal_action == Upper(action)
        sentiment_aligned ==
            \/ signal_action = "BUY" /\ sentiment_score >= -2
            \/ signal_action = "SELL" /\ sentiment_score <= 2
        high_confidence == overall_confidence >= 7
        low_confidence == overall_confidence <= MinConfidenceThreshold
    IN  IF low_confidence THEN "SKIP"
        ELSE IF ~sentiment_aligned /\ confidence >= 7 THEN "CAUTION"
        ELSE IF high_confidence /\ sentiment_aligned THEN "STRONG_PROCEED"
        ELSE "PROCEED"

\* _get_recommended_action(signal, sentiment, confidence): action is
\* signal['action'], confidence is sentiment.confidence
GetRecommendedAction(action, sentiment_score, confidence, overall_confidence) ==
    LET signal_action == Upper(action)
        sentiment_aligned ==
            \/ signal_action = "BUY" /\ sentiment_score > -2
            \/ signal_action = "SELL" /\ sentiment_score < 2
        high_confidence == overall_confidence > 7
        low_confidence == overall_confidence < MinConfidenceThreshold
    IN  IF low_confidence THEN "SKIP"
        ELSE IF ~sentiment_aligned /\ confidence > 7 THEN "CAUTION"
        ELSE IF high_confidence /\ sentiment_aligned THEN "STRONG_PROCEED"
        ELSE "PROCEED"

\* analyze_signal_with_ai, step 3: the call of _get_recommended_action
Recommend(action, sentiment_score, confidence, overall_confidence) ==
    /\ bot = "EnhancedTVBot"
    /\ pc = "signals"
    /\ advice' =
          [called |-> TRUE, action |-> action,
           sentiment_score |-> sentiment_score, confidence |-> confidence,
           overall_confidence |-> overall_confidence,
           result |-> GetRecommendedAction(action, sentiment_score, confidence,
                                           overall_confidence)]
    /\ UNCHANGED <<bot, pc, envvars, brokervars, tvvars, pt, mdvars, streamvars,
                   mod, strategy, scalper>>

\* The webhook server's trade list when it starts serving.  The module sets
\* trades = [] and the __main__ block calls app.run directly; main(), which
\* would load trades.json into the list, is never called.
StartupTrades(f) == <<>>

InitCommon ==
    /\ strategy = NewStrategy
    /\ scalper = NewScalper
    /\ advice = NoAdvice
    /\ pfile = {}
    /\ wtrades = StartupTrades(file)
    /\ winflight = {}
    /\ wresp = NoResp
    /\ orders = <<>>
    /\ open = {}
    /\ filled = {}
    /\ cancel_requests = {}
    /\ processed_trades = {}
    /\ active_orders = NoOrders
    /\ active_trades = NoTrades
    /\ ltrades = <<>>
    /\ snap = <<>>
    /\ idx = 0
    /\ pt = NotCalled
    /\ pn = NoCall
    /\ ever_processed = {}
    /\ ever_cleared = {}
    /\ current_position = 0
    /\ entry_price = None
    /\ active_tp_order_id = None
    /\ active_sl_order_id = None
    /\ main_order_id = None
    /\ current_orders = <<>>
    /\ token = ""
    /\ hub = <<>>
    /\ cb = IdleCb
    /\ position = 0
    /\ mod = NotModified

Init ==
    /\ bot \in TVBots
    /\ pc = "process"
    /\ file \in InitFiles
    /\ InitCommon

InitCalls ==
    /\ bot \in TVBots \cup MDBots
    /\ pc = "call"
    /\ file = <<>>
    /\ InitCommon

Next ==
    \/ \E req \in Requests : WebhookReceive(req)
    \/ \E h \in winflight, write_ok \in BOOLEAN : WebhookSave(h, write_ok)
    \/ \E id \in 1..MaxOrders : BrokerFill(id)
    \/ ProcessNewTrades
    \/ LoopIteration(0..3, BOOLEAN, MaxOrders)
    \/ \E search_ok \in BOOLEAN, cancel_ok \in BOOLEAN :
           CheckAndCancelOrders(search_ok, cancel_ok)
    \/ \E graceful \in BOOLEAN : Restart(graceful)

Spec == Init /\ [][Next]_vars

CallSides == {"buy", "sell", "SELL", "close"}

NextCalls ==
    \/ \E side \in CallSides, entry \in EntryPrices, ready \in BOOLEAN,
          fail_at \in 0..3, c1 \in 0..2, c2 \in 0..1 :
           MdPlaceTradeCall(side, entry, ready, fail_at, c1, c2)
    \/ \E side \in CallSides, fail_at \in 0..3, cancel_ok \in BOOLEAN,
          same_second \in BOOLEAN :
           TvPlaceTradeCall(side, fail_at, cancel_ok, same_second)
    \/ \E search_ok \in BOOLEAN, cancel_ok \in BOOLEAN :
           CheckAndCancelCall(search_ok, cancel_ok)
    \/ \E cfail \in 0..2 : CancelAllOrdersCall(cfail)
    \/ \E id \in 1..MaxOrders : BrokerFill(id)
    \/ \E id \in 1..MaxOrders : BrokerCancel(id)

\* the bots' methods under any sequence of calls
SpecCalls == InitCalls /\ [][NextCalls]_vars

InitStream ==
    /\ bot \in StreamBots
    /\ pc = "new"
    /\ file = <<>>
    /\ InitCommon

NextStream ==
    \/ \E tok \in Tokens : Construct(tok)
    \/ \E ok \in BOOLEAN : StartStep(ok)
    \/ \E ok \in BOOLEAN : PollQuery(ok)
    \/ \E log_ok \in BOOLEAN : PollDecide(log_ok)
    \/ PollReset
    \/ \E cfail \in 0..2 : KeyboardInterrupt(cfail)
    \/ \E ok \in BOOLEAN : StopStep(ok)
    \/ CbTrade(EntryPrices, BOOLEAN, 0..3, 0..2, 0..1)
    \/ CbSetPosition
    \/ CbSetEntry
    \/ \E id \in 1..MaxOrders : StreamFill(id)

\* run() of a market-data bot: the main thread and the stream thread
SpecStream == InitStream /\ [][NextStream]_vars

NextOrderApi ==
    \E kw \in ModifyKwargs, answer \in Answers : ModifyOrderCall(kw, answer)

\* OrderAPI.modify_order under any sequence of calls
SpecOrderApi == InitCalls /\ [][NextOrderApi]_vars

\* ------------------------------------------------ the signal generators
SignalBots == {"ma_bot", "scalping_bot_two", "micro_scalper", "EnhancedTVBot"}

InitSignals ==
    /\ bot \in SignalBots
    /\ pc = "signals"
    /\ file = <<>>
    /\ InitCommon

NextSignals ==
    \/ \E price \in Prices, ok \in BOOLEAN : OnPrice(price, ok)
    \/ \E price \in Prices, volume \in Volumes, outcome \in PlaceOutcomes :
          ScalperOnTrade(price, volume, outcome)
    \/ ScalperFlat
    \/ \E price \in Prices, ok \in BOOLEAN : HandleTrade(price, ok)
    \/ ClosePosition
    \/ \E action \in SignalActions, sentiment_score \in SentimentScores,
          confidence \in Confidences, overall_confidence \in Confidences :
          Recommend(action, sentiment_score, confidence, overall_confidence)

\* the strategies and the recommendation under any sequence of inputs
SpecSignals == InitSignals /\ [][NextSignals]_vars

\* ---------------------------------------------------------- fair polling
\* Enough orders for every signal there can be: the broker never refuses.
FairMaxOrders == 3 * (MaxInitFile + MaxWebhooks)

\* every broker call and every write of trades.json succeeds
FairNext ==
    \/ \E req \in Requests : WebhookReceive(req)
    \/ \E h \in winflight : WebhookSave(h, TRUE)
    \/ \E id \in 1..FairMaxOrders : BrokerFill(id)
    \/ ProcessNewTrades
    \/ LoopIteration({0}, {TRUE}, FairMaxOrders)
    \/ CheckAndCancelOrders(TRUE, TRUE)

\* run() never stops polling, and a request handler runs to its response
FairSpec ==
    /\ Init
    /\ [][FairNext]_vars
    /\ WF_vars(ProcessNewTrades)
    /\ WF_vars(LoopIteration({0}, {TRUE}, FairMaxOrders))
    /\ WF_vars(CheckAndCancelOrders(TRUE, TRUE))
    /\ WF_vars(\E h \in winflight : WebhookSave(h, TRUE))

\* ------------------------------------------------------------ properties
\* how often e occurs in the list s
Count(s, e) == Cardinality({i \in 1..Len(s) : s[i] = e})

\* a step of check_and_cancel_orders in the polling loop
CheckStep == pc = "check" /\ pc' = "process"

\* a pass of the loop of process_new_trades
LoopStep == pc = "loop" /\ (pc' # "loop" \/ idx' # idx)

\* the top of process_new_trades
ProcessStep == pc = "process" /\ pc' # "process"

\* a request handler answers 200
Save200Step ==
    /\ winflight' # winflight
    /\ winflight' \subseteq winflight
    /\ wresp'.status = 200

\* a request handler logs its trade
ReceiveStep == winflight' # winflight /\ winflight \subseteq winflight'

\* the entry lacks one of action, price, symbol, quantity, tp, sl
LacksField(trade) == \E f \in RequiredFields : f \notin DOMAIN trade

\* the trade_id of the entry the loop is at
CurrentId == TradeId(snap[idx], NextTime(active_trades))

\* C1: in trading_bot, ma_bot, the scalping bot and TVBot, a place_trade call
\* with a valid side, no trade active, the features available and every broker
\* call succeeding submits a market order, then a limit order, then a stop
\* order, and returns normally.
C1_PlaceTradeSubmitsBracket ==
    (/\ pt.called
     /\ pt.bot \in {"trading_bot", "ma_bot", "scalping_bot_two", "TVBot"}
     /\ pt.side_ok
     /\ ~pt.active
     /\ pt.ready
     /\ pt.broker_ok)
        => (pt.types = <<MARKET, LIMIT, STOP>> /\ pt.result = "returned")

\* C2: when TP and SL are tracked and one of them has left the broker's open
\* orders, the check_and_cancel_orders poll sends a cancel for the other one and
\* clears the tracked ids.
C2_SiblingCancelled ==
    [][(/\ CheckStep
        /\ active_orders.tp # None
        /\ active_orders.sl # None
        /\ (active_orders.tp \notin open \/ active_orders.sl \notin open))
          => (/\ active_orders' = NoOrders
              /\ IF active_orders.tp \notin open
                 THEN active_orders.sl \in cancel_requests'
                 ELSE active_orders.tp \in cancel_requests')]_vars

\* the signal the webhook server stamped k is in trades.json, with action BUY
\* or SELL, while the bot has no active trade
WrittenWhileIdle(k) ==
    /\ ~HasActiveTrades(bot, active_orders, active_trades)
    /\ \E i \in 1..Len(file) :
          /\ Get(file[i], "timestamp", 0) = k
          /\ file[i].action \in {"BUY", "SELL"}

\* the bot has submitted the entry order of the signal stamped k
Placed(k) ==
    \E j \in 1..Len(orders) :
        /\ orders[j].type = MARKET
        /\ Len(orders[j].sig) = 4
        /\ orders[j].sig[4] = k

\* C3: a BUY or SELL signal of the webhook server that is in trades.json while
\* the bot has no active trade is eventually placed by the polling loop.
C3_SignalEventuallyPlaced ==
    \A k \in 1..MaxWebhooks : WrittenWhileIdle(k) ~> Placed(k)

\* the trade a 200 response returns has the seven fields, and its action is
\* the request's action upper-cased
ReturnedTradeOk(resp) ==
    /\ DOMAIN resp.trade =
          {"timestamp", "action", "symbol", "price", "quantity", "tp", "sl"}
    /\ <<resp.req.data.action, resp.trade.action>> \in
          {<<"buy", "BUY">>, <<"sell", "SELL">>, <<"close", "CLOSE">>}
    /\ resp.trade.symbol = resp.req.data.symbol

\* a handler appends exactly one entry to the in-memory list and removes
\* none; answering leaves the list alone
AppendsOne ==
    /\ ReceiveStep => /\ Len(wtrades') = Len(wtrades) + 1
                      /\ SubSeq(wtrades', 1, Len(wtrades)) = wtrades
    /\ Save200Step => wtrades' = wtrades

C5_ClosedTradeNotActive ==
    [][(/\ bot = "TVBot"
        /\ CheckStep
        /\ active_orders.tp # None
        /\ active_orders.sl # None
        /\ (active_orders.tp \notin open \/ active_orders.sl \notin open)
        /\ active_orders' = NoOrders)
          => ~HasActiveTrades(bot, active_orders', active_trades')]_vars

\* C6: a place_trade call of TVBot or EnhancedTVBot made while
\* has_active_trades() is true raises and submits no order; TVBot never holds
\* more than one OPEN trade, and the TP and SL tracked belong to one entry.
C6_NoTradeWhileActive ==
    /\ (pt.called /\ pt.bot \in TVBots /\ pt.active)
          => (pt.result = "raised" /\ pt.types = <<>>)
    /\ Cardinality({k \in DOMAIN active_trades :
                        active_trades[k].status = "OPEN"}) <= 1
    /\ (active_orders.tp # None /\ active_orders.sl # None)
          => orders[active_orders.tp].linked = orders[active_orders.sl].linked

\* place_trade was called while a trade was active
C6_Witness ==
    /\ pt.called
    /\ pt.bot \in TVBots
    /\ pt.active
    /\ pt.side_ok
    /\ Len(orders) = 3

C9_OneEntryPerCall == pn.entries <= 1

EntriesOf(k) ==
    {j \in 1..Len(orders) :
        /\ orders[j].type = MARKET
        /\ Len(orders[j].sig) = 4
        /\ orders[j].sig[4] = k}

\* C16: over the whole run each signal of the webhook server results in at
\* most one market entry order, also when the TP or SL placement fails after
\* the entry was accepted and the signal is read again.
C16_OneEntryPerSignal ==
    \A k \in 1..MaxWebhooks : Cardinality(EntriesOf(k)) <= 1

\* the ids of the orders a step submits
NewIds == (Len(orders) + 1)..Len(orders')

\* C17: the bot submits no market entry order while a TP or SL order it placed
\* for an earlier trade is still working at the broker, also after
\* check_and_cancel_orders has reset its tracking on an error.
C17_NoEntryWhileBracketWorking ==
    [][(\E i \in NewIds : orders'[i].type = MARKET) => open = {}]_vars

\* a place_trade call of EnhancedTVBot or of the scalping bot failed after the
\* broker had accepted its entry order
FailedAfterEntry ==
    /\ NewIds # {}
    /\ pt'.bot \in {"EnhancedTVBot", "scalping_bot_two"}
    /\ pt'.result # "returned"

\* C18: when place_trade fails after the entry order was accepted, a cancel is
\* sent for every order the call had placed, the tracked ids are reset and the
\* failure is reported: EnhancedTVBot returns False, the scalping bot raises.
C18_FailedTradeCleanedUp ==
    [][FailedAfterEntry
          => (/\ NewIds \subseteq cancel_requests'
              /\ IF pt'.bot = "EnhancedTVBot"
                 THEN /\ active_orders' = NoOrders
                      /\ pt'.result = "returned_false"
                 ELSE /\ active_tp_order_id' = None
                      /\ active_sl_order_id' = None
                      /\ main_order_id' = None
                      /\ pt'.result = "raised")]_vars

\* the scalping bot resets its tracked ids without placing an order: a
\* cancel_all_orders call, on its own or inside a place_trade call that failed
\* at its entry order
CancelAllStep ==
    /\ bot = "scalping_bot_two"
    /\ orders' = orders
    /\ active_tp_order_id # None \/ active_sl_order_id # None
    /\ active_tp_order_id' = None
    /\ active_sl_order_id' = None

\* C19: when cancel_all_orders of the scalping bot returns, a cancel was sent
\* for each of the TP and SL ids that was set and the three tracked ids are
\* None, whether or not a cancel_order call raised.
C19_CancelAllSendsBoth ==
    [][CancelAllStep
          => (/\ ({active_tp_order_id, active_sl_order_id} \ {None})
                     \subseteq cancel_requests'
              /\ main_order_id' = None)]_vars

\* the cancels a step of TVBot or EnhancedTVBot sends without placing an order:
\* those of check_and_cancel_orders
CheckCancels ==
    IF bot \in TVBots /\ orders' = orders
    THEN cancel_requests' \ cancel_requests
    ELSE {}

\* C15: check_and_cancel_orders sends a cancel for a bracket leg only when the
\* sibling leg has been filled at the broker: no SL (or TP) is cancelled
\* because its sibling left the open orders without a fill.
C15_CancelOnlyAfterFill ==
    [][\A id \in CheckCancels :
          /\ id = active_orders.sl => active_orders.tp \in filled
          /\ id = active_orders.tp => active_orders.sl \in filled]_vars

\* C20: a signal the bot has removed from trades.json, as processed or by
\* clearing the file while a trade was active, is never placed as an order
\* afterwards, whatever the webhook server writes to trades.json later.
C20_RemovedNeverPlaced ==
    [][\A i \in NewIds :
          orders'[i].sig \notin ever_processed \cup ever_cleared]_vars

\* check_positions has found no open position and is about to read the two
\* fields, and place_trade on the stream thread has stored current_position
\* and not yet entry_price
TornRead == pc = "flat" /\ current_position # 0 /\ entry_price = None

\* check_positions is between its two resetting assignments, and place_trade
\* has written one of the fields since check_positions queried the positions:
\* one write of the two threads is about to be, or has been, overwritten
StaleReset == pc = "reset" /\ cb.fresh

\* C11: in ma_bot and the scalping bot no interleaving of the stream callback
\* (place_trade) with the polling loop (check_positions) shows the loop
\* current_position # 0 with entry_price None, and none loses an update to
\* either field.
C11_NoRaceOnPosition == ~TornRead /\ ~StaleReset

\* C12: a broker call or a file operation that raises during a polling
\* iteration or a market-data callback does not end the bot's main loop.
C12_LoopSurvivesErrors == pc # "terminated"

\* every occurrence of the call b on the connection comes after a call a
Before(a, b) ==
    \A j \in 1..Len(hub) :
        hub[j] = b => \E i \in 1..(j - 1) : hub[i] = a

\* C13: MarketDataClient rejects an empty token with ValueError; start()
\* registers the GatewayQuote, GatewayTrade and GatewayDepth handlers before it
\* starts the connection and sends the three subscribe messages only after
\* connection.start(), all three by the time it returns; stop() sends the
\* three unsubscribe messages before connection.stop().
C13_HubCallOrder ==
    /\ (pc # "new" /\ token = "") => (pc = "ValueError" /\ hub = <<>>)
    /\ \A h \in {"on GatewayQuote", "on GatewayTrade", "on GatewayDepth"} :
          Before(h, "start")
    /\ \A m \in {"send SubscribeContractQuotes",
                 "send SubscribeContractTrades",
                 "send SubscribeContractMarketDepth"} :
          /\ Before("start", m)
          /\ pc \in {"poll", "flat", "reset"} => m \in Range(hub)
    /\ \A m \in {"send UnsubscribeContractQuotes",
                 "send UnsubscribeContractTrades",
                 "send UnsubscribeContractMarketDepth"} :
          Before(m, "stop")

\* start() and stop() have both run to their end
C13_Witness ==
    /\ pc = "stopped"
    /\ Len(hub) = 14
    /\ hub[7] = "start"
    /\ hub[14] = "stop"

\* the values the payload carries
Carried(payload) == {payload[k] : k \in DOMAIN payload}

\* C14: modify_order called with account_id, order_id, take_profit and
\* stop_loss sends one modify request for that order which carries the new
\* take-profit and stop-loss levels, and returns True when the broker answers
\* with success.
C14_ModifySendsLevels ==
    (/\ mod.called
     /\ DOMAIN mod.kw = {"account_id", "order_id", "take_profit", "stop_loss"}
     /\ mod.answer = "success")
        => (/\ Len(mod.sent) = 1
            /\ mod.sent[1].orderId = mod.kw.order_id
            /\ \E tp \in Carried(mod.sent[1]) :
                  tp \in {mod.kw.take_profit,
                          [text |-> mod.kw.take_profit.decimal]}
            /\ \E sl \in Carried(mod.sent[1]) :
                  sl \in {mod.kw.stop_loss,
                          [text |-> mod.kw.stop_loss.decimal]}
            /\ mod.result = "True")

\* the first request the webhook server answers after its start is answered
\* 200: the first write of trades.json since the start
FirstWriteStep == Save200Step /\ wresp.status = 0

\* C21: the webhook server loads trades.json into its trade list when it
\* starts, so the entries that are in the file are still in the file after the
\* first webhook write that follows the start.
C21_StartKeepsFile ==
    [][FirstWriteStep
          => \A i \in 1..Len(file) :
                Count(file', file[i]) >= Count(file, file[i])]_vars

\* C22: RealTimeMACrossover's current_position only moves flat to long, flat
\* to short, long to flat or short to flat; an on_price call passes at most
\* one order to place_trade, and none while a window is short or when the two
\* averages are equal; it buys only with fast MA > slow MA, flat or short
\* before, and sells only with fast MA < slow MA, flat or long before; the
\* position moves only with the matching order.
C22_CrossoverDiscipline ==
    LET before == strategy.before
        after == strategy.current_position
        fast == strategy.fast_prices
        slow == strategy.slow_prices
        full == Len(fast) = FastPeriod /\ Len(slow) = SlowPeriod
        above == full /\ MaAbove(fast, slow)
        below == full /\ MaBelow(fast, slow)
        calls == strategy.calls
    IN  /\ Len(calls) <= 1
        /\ \A i \in 1..Len(calls) : calls[i] \in {"buy", "sell"}
        /\ \/ after = before
           \/ before = 0 /\ after \in {MaPositionSize, 0 - MaPositionSize}
           \/ before # 0 /\ after = 0
        /\ calls = <<"buy">> => above /\ before <= 0
        /\ calls = <<"sell">> => below /\ before >= 0
        /\ ~above /\ ~below => calls = <<>>
        /\ after > before => calls = <<"buy">>
        /\ after < before => calls = <<"sell">>

\* an on_price call has sold to leave a long position
C22_Witness ==
    /\ strategy.before > 0
    /\ strategy.current_position = 0
    /\ strategy.calls = <<"sell">>

\* C23: MicroScalper passes a side to place_trade (place_order) only from an
\* on_trade call that has received more than window_size prices and found the
\* position flat: sell when last - first of the window exceeds threshold, buy
\* when it is below -threshold; such a call does trade, and no other call
\* does.  After every call the window holds at most window_size prices and,
\* in the bot's class, as many volumes as prices.
C23_ScalperSignals ==
    LET w == scalper.last_prices
        calls == scalper.calls
        checked == scalper.received > WindowSize /\ scalper.flat
        delta == w[Len(w)] - w[1]
    IN  /\ Len(w) <= WindowSize
        /\ bot = "scalping_bot_two" => Len(scalper.last_volumes) = Len(w)
        /\ Len(calls) <= 1
        /\ calls # <<>> => checked
        /\ checked =>
              /\ delta > Threshold <=> (calls # <<>> /\ Upper(calls[1]) = "SELL")
              /\ delta < 0 - Threshold
                    <=> (calls # <<>> /\ Upper(calls[1]) = "BUY")

\* the bot's scalper has signalled a sale from a full window
C23_Witness ==
    /\ bot = "scalping_bot_two"
    /\ scalper.calls = <<"sell">>
    /\ Len(scalper.last_volumes) = WindowSize

\* C24: _get_recommended_action returns SKIP when overall_confidence is below
\* min_confidence_threshold; otherwise CAUTION when the signal is not aligned
\* with the sentiment and sentiment.confidence is above 0.7; otherwise
\* STRONG_PROCEED when overall_confidence is above 0.7 and the signal is
\* aligned; otherwise PROCEED.  Aligned: BUY with sentiment_score above -0.2,
\* or SELL with sentiment_score below 0.2.
C24_RecommendedAction ==
    advice.called =>
       LET a == Upper(advice.action)
           aligned == \/ a = "BUY" /\ advice.sentiment_score > -2
                      \/ a = "SELL" /\ advice.sentiment_score < 2
           r == advice.result
       IN  /\ advice.overall_confidence < MinConfidenceThreshold => r = "SKIP"
           /\ advice.overall_confidence >= MinConfidenceThreshold =>
                 /\ ~aligned /\ advice.confidence > 7 => r = "CAUTION"
                 /\ ~aligned /\ advice.confidence <= 7 => r = "PROCEED"
                 /\ aligned /\ advice.overall_confidence > 7
                       => r = "STRONG_PROCEED"
                 /\ aligned /\ advice.overall_confidence <= 7 => r = "PROCEED"

\* a sell signal at sentiment score 0.1 and overall confidence above 0.7 was
\* answered STRONG_PROCEED
C24_Witness ==
    /\ advice.called
    /\ Upper(advice.action) = "SELL"
    /\ advice.sentiment_score = 1
    /\ advice.overall_confidence > 7
    /\ advice.result = "STRONG_PROCEED"
====
